---- MODULE Spec2Model ----
(***************************************************************************)
(* A model of toastmetrics_app.py: discovery of menu-breakdown CSV files,  *)
(* normalisation of their numeric columns, assembly of the unified table,  *)
(* the "total" filter, the sqlite store and the ranked reports.            *)
(*                                                                         *)
(* Text is a sequence of one-character strings, so that lower(), strip(),  *)
(* the substring tests, splitext() and to_numeric() are computed on the    *)
(* characters.  A table is [cols, rows]: the header and the rows, each row *)
(* a sequence of cells aligned with the header.  A cell is Txt(s), Num(n)  *)
(* or Null (pandas' NaN / None).                                           *)
(***************************************************************************)
EXTENDS Integers, Sequences, FiniteSets, TLC

VARIABLES
    pc,            \* position of the running script / of the function under study
    listing,       \* os.listdir(base): the directory's entries, in listing order
    hits,          \* find_menu_csvs_in_folder's result (paths)
    next_hit,      \* load_all_weeks: number of hits already loaded
    all_dfs,       \* load_all_weeks: the per-file tables
    df,            \* the unified table
    item_df,       \* the table after the "total" filter
    store,         \* the sqlite file's "sales" table (NoTable when absent)
    store_before,  \* the "sales" table when the current save began
    conn_open,     \* sqlite connections opened and not closed
    out,           \* what the run printed, as labels
    exit_status,   \* the process exit status (NotExited while running)
    calls,         \* the functions the run has called, in order
    arg,           \* the table passed to the most recent save / report call
    report,        \* the most recent report's result
    stable_sort,   \* whether this build's quicksort keeps the order of equal keys
    raw,           \* the input of the function under study
    norm           \* normalize_menu_df's outcome on raw

vars == <<pc, listing, hits, next_hit, all_dfs, df, item_df, store, store_before,
          conn_open, out, exit_status, calls, arg, report, stable_sort, raw, norm>>

----------------------------------------------------------------------------
(* Bounds *)

MaxNormRows == 2

MaxAggRows == 2

MaxFiles == 2

----------------------------------------------------------------------------
(* Characters and text *)

\* The characters the model uses, in code point order (Python compares str by code point).
CODEPOINTS ==
    <<" ", "$", ",", "-", ".", "/",
      "0", "1", "2", "3", "4", "5", "6", "7", "8", "9",
      "A", "B", "C", "D", "E", "F", "G", "H", "I", "J", "K", "L", "M",
      "N", "O", "P", "Q", "R", "S", "T", "U", "V", "W", "X", "Y", "Z",
      "a", "b", "c", "d", "e", "f", "g", "h", "i", "j", "k", "l", "m",
      "n", "o", "p", "q", "r", "s", "t", "u", "v", "w", "x", "y", "z">>

\* ord(c), as the character's place in CODEPOINTS
OrdOf == [c \in {CODEPOINTS[i] : i \in 1..Len(CODEPOINTS)} |->
             CHOOSE i \in 1..Len(CODEPOINTS) : CODEPOINTS[i] = c]

Ord(c) == OrdOf[c]

UPPERCASE == {CODEPOINTS[i] : i \in 17..42}

IsUpper(c) == c \in UPPERCASE

\* str.lower() on one character: a lowercase letter is 26 places after its capital
LowerChar(c) == IF IsUpper(c) THEN CODEPOINTS[Ord(c) + 26] ELSE c

\* str.lower()
Lower(s) == [i \in 1..Len(s) |-> LowerChar(s[i])]

\* `sub in s`
Contains(s, sub) ==
    \E i \in 0..(Len(s) - Len(sub)) :
        \A j \in 1..Len(sub) : s[i + j] = sub[j]

\* s.endswith(suffix)
EndsWith(s, suffix) ==
    /\ Len(s) >= Len(suffix)
    /\ \A j \in 1..Len(suffix) : s[Len(s) - Len(suffix) + j] = suffix[j]

\* str.strip(): surrounding whitespace removed
Strip(s) ==
    LET nonws == {i \in 1..Len(s) : s[i] # " "}
    IN  IF nonws = {} THEN <<>>
        ELSE LET lo == CHOOSE i \in nonws : \A j \in nonws : i <= j
                 hi == CHOOSE i \in nonws : \A j \in nonws : i >= j
             IN  SubSeq(s, lo, hi)

\* str.replace(ch, ""): every occurrence of the character removed
RemoveChar(s, ch) == SelectSeq(s, LAMBDA c : c # ch)

\* Python's str comparison a < b
RECURSIVE StrLess(_, _)
StrLess(a, b) ==
    IF b = <<>> THEN FALSE
    ELSE IF a = <<>> THEN TRUE
    ELSE IF a[1] # b[1] THEN Ord(a[1]) < Ord(b[1])
    ELSE StrLess(Tail(a), Tail(b))

----------------------------------------------------------------------------
(* Cells *)

Null == [t |-> "null", v |-> 0]

Num(n) == [t |-> "num", v |-> n]

Txt(s) == [t |-> "txt", v |-> s]

IsNull(c) == c.t = "null"

IsNum(c) == c.t = "num"

IsTxt(c) == c.t = "txt"

DIGITS == <<"0", "1", "2", "3", "4", "5", "6", "7", "8", "9">>

IsDigit(c) == \E i \in 1..10 : DIGITS[i] = c

DigitVal(c) == (CHOOSE i \in 1..10 : DIGITS[i] = c) - 1

\* str(n) for a non-negative integer
RECURSIVE DecStr(_)
DecStr(n) == IF n < 10 THEN <<DIGITS[n + 1]>>
             ELSE DecStr(n \div 10) \o <<DIGITS[(n % 10) + 1]>>

\* Series.astype(str) on one cell: NaN becomes the text "nan"
AsStr(c) == IF IsTxt(c) THEN c.v
            ELSE IF IsNum(c) THEN DecStr(c.v)
            ELSE <<"n", "a", "n">>

RECURSIVE DecVal(_)
DecVal(s) == IF s = <<>> THEN 0
             ELSE 10 * DecVal(SubSeq(s, 1, Len(s) - 1)) + DigitVal(s[Len(s)])

\* pd.to_numeric(errors="coerce") on one text cell, for texts of digits,
\* letters and punctuation: surrounding whitespace is ignored, a digit string
\* is its value, anything else (the text "nan" included) is NaN.
ToNumeric(s) ==
    LET body == Strip(s)
    IN  IF body # <<>> /\ \A i \in 1..Len(body) : IsDigit(body[i])
        THEN Num(DecVal(body))
        ELSE Null

\* line 38-39 on one cell
CoerceCell(c) == ToNumeric(RemoveChar(RemoveChar(AsStr(c), ","), "$"))

----------------------------------------------------------------------------
(* Column names *)

ITEM_NAME == <<"I", "t", "e", "m", " ", "N", "a", "m", "e">>

SALES_CATEGORY == <<"S", "a", "l", "e", "s", " ", "C", "a", "t", "e", "g", "o", "r", "y">>

AVG_PRICE == <<"A", "v", "g", " ", "P", "r", "i", "c", "e">>

QUANTITY == <<"Q", "u", "a", "n", "t", "i", "t", "y">>

GROSS_SALES == <<"G", "r", "o", "s", "s", " ", "S", "a", "l", "e", "s">>

DISCOUNT_AMOUNT == <<"D", "i", "s", "c", "o", "u", "n", "t", " ", "A", "m", "o", "u", "n", "t">>

NET_SALES == <<"N", "e", "t", " ", "S", "a", "l", "e", "s">>

WEEK == <<"W", "e", "e", "k">>

num_cols == <<AVG_PRICE, QUANTITY, GROSS_SALES, DISCOUNT_AMOUNT, NET_SALES>>

----------------------------------------------------------------------------
(* Tables *)

Table(cols, rows) == [cols |-> cols, rows |-> rows]

\* pd.DataFrame()
EmptyTable == Table(<<>>, <<>>)

\* the positions of a column label in a header
ColIdxs(cols, name) == {i \in 1..Len(cols) : cols[i] = name}

HasCol(t, name) == ColIdxs(t.cols, name) # {}

ColIdx(t, name) == CHOOSE i \in ColIdxs(t.cols, name) : TRUE

\* row[name]
Cell(t, row, name) == row[ColIdx(t, name)]

\* df.empty: either axis has length 0
IsEmpty(t) == Len(t.cols) = 0 \/ Len(t.rows) = 0

Ok(t) == [ok |-> TRUE, df |-> t, err |-> "none"]

Raise(e) == [ok |-> FALSE, df |-> EmptyTable, err |-> e]

----------------------------------------------------------------------------
(* normalize_menu_df *)

\* lines 38-39 for one column present once
CoerceColumn(t, name) ==
    LET i == ColIdx(t, name)
    IN  Table(t.cols,
              [r \in 1..Len(t.rows) |->
                  [j \in 1..Len(t.cols) |->
                      IF j = i THEN CoerceCell(t.rows[r][j]) ELSE t.rows[r][j]]])

\* the loop of lines 36-39 from num_cols[n] on.  A label that occurs twice
\* makes df[col] a DataFrame, which has no .str accessor: AttributeError.
RECURSIVE NormalizeFrom(_, _)
NormalizeFrom(t, n) ==
    IF n > Len(num_cols) THEN Ok(t)
    ELSE LET col == num_cols[n]
         IN  IF ~HasCol(t, col) THEN NormalizeFrom(t, n + 1)
             ELSE IF Cardinality(ColIdxs(t.cols, col)) > 1 THEN Raise("AttributeError")
             ELSE NormalizeFrom(CoerceColumn(t, col), n + 1)

\* line 34
StripColumns(t) == Table([i \in 1..Len(t.cols) |-> Strip(t.cols[i])], t.rows)

normalize_menu_df(t) == NormalizeFrom(StripColumns(t), 1)

----------------------------------------------------------------------------
(* The aggregations: groupby(...).sum().sort_values(...).head(n) *)

DefaultN == 10

Min(a, b) == IF a <= b THEN a ELSE b

\* the distinct non-null values of a column: groupby drops rows whose key is NaN
KeysOf(t, key) ==
    { t.rows[r][ColIdx(t, key)] : r \in 1..Len(t.rows) } \ { Null }

\* groupby(sort=True): the group keys in ascending order
RECURSIVE SortedKeys(_)
SortedKeys(S) ==
    IF S = {} THEN <<>>
    ELSE LET m == CHOOSE x \in S : \A y \in S \ {x} : StrLess(x.v, y.v)
         IN  <<m>> \o SortedKeys(S \ {m})

\* the variant that counts the numbers instead of adding them (count() for sum())
AddCounting(acc, c) == IF IsNull(c) THEN acc ELSE acc + 1

\* a number plus a cell, the cell skipped when it is NaN (sum's skipna=True)
AddSkipNa(acc, c) == IF IsNull(c) THEN acc ELSE acc + c.v

\* .sum() of column col over rows 1..r of the group kv; an all-NaN group sums to 0
RECURSIVE GroupSum(_, _, _, _, _)
GroupSum(t, key, kv, col, r) ==
    IF r = 0 THEN 0
    ELSE LET acc == GroupSum(t, key, kv, col, r - 1)
         IN  IF Cell(t, t.rows[r], key) = kv
             THEN AddSkipNa(acc, Cell(t, t.rows[r], col))
             ELSE acc

\* groupby(key, as_index=False)[col].sum(): one row per group, in key order
GroupBySum(t, key, col) ==
    LET keys == SortedKeys(KeysOf(t, key))
    IN  [i \in 1..Len(keys) |->
            [item |-> keys[i], value |-> GroupSum(t, key, keys[i], col, Len(t.rows))]]

Perms(n) == { p \in [1..n -> 1..n] : \A i, j \in 1..n : p[i] = p[j] => i = j }

\* the variant with the direction inverted
InOrderFlipped(a, b, ascending) == IF ascending THEN a >= b ELSE a <= b

InOrder(a, b, ascending) == IF ascending THEN a <= b ELSE a >= b

\* sort_values(col, ascending): kind defaults to quicksort, which is not a
\* stable sort.  Every ordering by value is an outcome; a build whose
\* quicksort happens to keep equal keys in place yields the groups' order.
SortValues(g, ascending, stable) ==
    { [i \in 1..Len(g) |-> g[p[i]]] : p \in
        { q \in Perms(Len(g)) :
            \A i, j \in 1..Len(g) : i < j =>
                /\ InOrder(g[q[i]].value, g[q[j]].value, ascending)
                /\ (stable /\ g[q[i]].value = g[q[j]].value) => q[i] < q[j] } }

\* .head(n)
Head_n(s, n) == SubSeq(s, 1, Min(n, Len(s)))

Ranked(fn, n, rows) == [fn |-> fn, n |-> n, ok |-> TRUE, rows |-> rows]

KeyError(fn, n) == [fn |-> fn, n |-> n, ok |-> FALSE, rows |-> <<>>]

\* the outcomes of groupby(key)[col].sum().sort_values(col, ascending).head(n)
RankOutcomes(fn, t, key, col, ascending, n, stable) ==
    IF ~HasCol(t, key) \/ ~HasCol(t, col) THEN { KeyError(fn, n) }
    ELSE { Ranked(fn, n, Head_n(s, n)) :
             s \in SortValues(GroupBySum(t, key, col), ascending, stable) }

top_items_by_quantity(t, n, stable) ==
    RankOutcomes("top_items_by_quantity", t, ITEM_NAME, QUANTITY, FALSE, n, stable)

top_items_by_revenue(t, n, stable) ==
    RankOutcomes("top_items_by_revenue", t, ITEM_NAME, NET_SALES, FALSE, n, stable)

bottom_items_by_quantity(t, n, stable) ==
    RankOutcomes("bottom_items_by_quantity", t, ITEM_NAME, QUANTITY, TRUE, n, stable)

FOOD == <<"F", "o", "o", "d">>

\* df[df["Sales Category"] == category]
FilterCategory(t, category) ==
    Table(t.cols,
          SelectSeq(t.rows, LAMBDA row : Cell(t, row, SALES_CATEGORY) = Txt(category)))

bottom_items_by_category(t, category, n, stable) ==
    IF ~HasCol(t, SALES_CATEGORY) THEN { KeyError("bottom_items_by_category", n) }
    ELSE RankOutcomes("bottom_items_by_category", FilterCategory(t, category),
                      ITEM_NAME, QUANTITY, TRUE, n, stable)

\* the sum of a column's numbers over a set of rows
RECURSIVE SumOverRows(_, _, _)
SumOverRows(t, R, col) ==
    IF R = {} THEN 0
    ELSE LET r == CHOOSE x \in R : TRUE
             c == Cell(t, t.rows[r], col)
         IN  (IF IsNum(c) THEN c.v ELSE 0) + SumOverRows(t, R \ {r}, col)

----------------------------------------------------------------------------
(* The example query *)

QueryLimit == 5

\* SUM([Net Sales]) over a group: NULL when the group has no number
SqlSum(t, R) ==
    IF \A r \in R : ~IsNum(Cell(t, t.rows[r], NET_SALES)) THEN Null
    ELSE Num(SumOverRows(t, R, NET_SALES))

\* ORDER BY ... DESC: NULL sorts after every number
SqlDescInOrder(a, b) == IsNull(b) \/ (IsNum(a) /\ a.v >= b.v)

\* lines 150-157 on the sales table: the Food rows grouped by Item Name (NULL
\* is a group), the groups in descending order of their sum, ties in any
\* order, the first five
SqlTopFoodRevenue(s) ==
    LET t == FilterCategory(Table(s.cols, s.rows), FOOD)
        keys == { Cell(t, t.rows[r], ITEM_NAME) : r \in 1..Len(t.rows) }
        total(kv) == SqlSum(t, { r \in 1..Len(t.rows) : Cell(t, t.rows[r], ITEM_NAME) = kv })
        orders == { q \in [1..Cardinality(keys) -> keys] :
                      /\ \A i, j \in DOMAIN q : q[i] = q[j] => i = j
                      /\ \A i, j \in DOMAIN q : i < j => SqlDescInOrder(total(q[i]), total(q[j])) }
    IN  { [fn |-> "query_database", n |-> QueryLimit, ok |-> TRUE,
           rows |-> [i \in 1..Min(QueryLimit, Len(q)) |->
                        [item |-> q[i], value |-> total(q[i])]]] : q \in orders }

----------------------------------------------------------------------------
(* File discovery *)

MARKER == <<"m", "e", "n", "u", "-", "b", "r", "e", "a", "k", "d", "o", "w", "n">>

EXT == <<".", "c", "s", "v">>

SEP == "/"

\* os.path.join("Projects", "ToastMetrics", "ToastMetrics_data", "2025-12"):
\* the directory names are kept whole, the separators are path characters
BASE == <<"Projects", SEP, "ToastMetrics", SEP, "ToastMetrics_data", SEP, "2025-12">>

\* os.path.join(folder_path, file)
Join(folder, file) == folder \o <<SEP>> \o file

\* os.path.basename(path)
Basename(path) ==
    LET seps == {i \in 1..Len(path) : path[i] = SEP}
    IN  IF seps = {} THEN path
        ELSE SubSeq(path, (CHOOSE i \in seps : \A j \in seps : i >= j) + 1, Len(path))

\* os.path.splitext(name)[0]: the name up to its last dot, unless only dots precede it
SplitextRoot(name) ==
    LET dots == {i \in 1..Len(name) : name[i] = "."}
    IN  IF dots = {} THEN name
        ELSE LET d == CHOOSE i \in dots : \A j \in dots : i >= j
             IN  IF \A i \in 1..(d - 1) : name[i] = "." THEN name
                 ELSE SubSeq(name, 1, d - 1)

\* line 15
Matches(file) == LET f == Lower(file) IN Contains(f, MARKER) /\ EndsWith(f, EXT)

\* lines 12-17 over os.listdir's entries: a matching entry is kept whether or
\* not it is a regular file
find_menu_csvs_in_folder(folder, entries) ==
    LET kept == SelectSeq(entries, LAMBDA e : Matches(e.name))
    IN  [i \in 1..Len(kept) |-> Join(folder, kept[i].name)]

----------------------------------------------------------------------------
(* load_all_weeks *)

\* the variant without splitext
WeekLabelKeepingExt(csv_path) == Basename(csv_path)

\* line 53: os.path.splitext(os.path.basename(csv_path))[0]
WeekLabel(csv_path) == SplitextRoot(Basename(csv_path))

\* df["Week"] = label: the column is overwritten, or added as the last one
SetWeek(t, label) ==
    IF HasCol(t, WEEK)
    THEN Table(t.cols,
               [r \in 1..Len(t.rows) |->
                   [j \in 1..Len(t.cols) |->
                       IF t.cols[j] = WEEK THEN Txt(label) ELSE t.rows[r][j]]])
    ELSE Table(Append(t.cols, WEEK),
               [r \in 1..Len(t.rows) |-> Append(t.rows[r], Txt(label))])

\* the labels of b that a lacks, in b's order
NewCols(a, b) == SelectSeq(b, LAMBDA c : ColIdxs(a, c) = {})

\* the union of the tables' headers, each label where it first appears
RECURSIVE UnionCols(_)
UnionCols(ts) ==
    IF ts = <<>> THEN <<>>
    ELSE LET before == UnionCols(SubSeq(ts, 1, Len(ts) - 1))
         IN  before \o NewCols(before, ts[Len(ts)].cols)

\* a table's rows laid out under the header cols, NaN where it has no such column
Reindex(t, cols) ==
    [r \in 1..Len(t.rows) |->
        [j \in 1..Len(cols) |->
            IF HasCol(t, cols[j]) THEN Cell(t, t.rows[r], cols[j]) ELSE Null]]

RECURSIVE ConcatRows(_, _)
ConcatRows(ts, cols) ==
    IF ts = <<>> THEN <<>>
    ELSE ConcatRows(SubSeq(ts, 1, Len(ts) - 1), cols) \o Reindex(ts[Len(ts)], cols)

\* pd.concat(all_dfs, ignore_index=True)
Concat(ts) == Table(UnionCols(ts), ConcatRows(ts, UnionCols(ts)))

\* the variant without lines 56-57: pd.concat of no table raises ValueError
LoadResultUnguarded(ts) == IF ts = <<>> THEN Raise("ValueError") ELSE Ok(Concat(ts))

\* lines 56-59
LoadResult(ts) == IF ts = <<>> THEN Ok(EmptyTable) ELSE Ok(Concat(ts))

----------------------------------------------------------------------------
(* The "total" filter and the store *)

TOTAL == <<"t", "o", "t", "a", "l">>

\* the variant without case=False
KeepsRowCaseSensitive(c) == ~(IsTxt(c) /\ Contains(c.v, TOTAL))

\* line 130 on one Item Name cell: str.contains("total", case=False, na=False), negated
KeepsRow(c) == ~(IsTxt(c) /\ Contains(Lower(c.v), TOTAL))

\* line 130
FilterTotals(t) ==
    Table(t.cols, SelectSeq(t.rows, LAMBDA row : KeepsRow(Cell(t, row, ITEM_NAME))))

NoTable == [cols |-> <<>>, rows |-> <<>>, absent |-> TRUE]

Stored(t) == [cols |-> t.cols, rows |-> t.rows, absent |-> FALSE]

\* the variant with if_exists="append"
ToSqlAppending(old, t) ==
    IF old.absent THEN Stored(t)
    ELSE [cols |-> t.cols, rows |-> old.rows \o t.rows, absent |-> FALSE]

\* line 87: to_sql("sales", conn, if_exists="replace"): the table is dropped and recreated
ToSql(old, t) == Stored(t)

----------------------------------------------------------------------------
(* Inputs of the function-level specifications *)

SP == <<" ">>

\* cells as pd.read_csv delivers them in a numeric column: formatted text,
\* text with no number in it, an integer, an empty cell
NumRawCells ==
    { Txt(<<"$", "1", "2">>), Txt(<<"1", ",", "0">>), Txt(<<"-">>), Num(7), Null }

TextRawCells == { Txt(<<"T", "o", "t", "s">>), Null }

IsNumColName(name) == \E i \in 1..Len(num_cols) : num_cols[i] = Strip(name)

RawCellsOf(name) == IF IsNumColName(name) THEN NumRawCells ELSE TextRawCells

\* the rows a header admits
RECURSIVE RowsOf(_)
RowsOf(h) ==
    IF h = <<>> THEN { <<>> }
    ELSE { Append(r, c) : r \in RowsOf(SubSeq(h, 1, Len(h) - 1)),
                          c \in RawCellsOf(h[Len(h)]) }

SeqsUpTo(S, n) == UNION { [1..m -> S] : m \in 0..n }

\* headers as read from a file: labels distinct as written, some padded
NormHeaders ==
    { <<ITEM_NAME, QUANTITY>>,
      <<SP \o ITEM_NAME, QUANTITY \o SP>>,
      <<QUANTITY, SP \o QUANTITY>>,
      <<SP \o NET_SALES \o SP, ITEM_NAME, QUANTITY>>,
      <<ITEM_NAME, SALES_CATEGORY>> }

\* t is a table under one of the headers, of at most n rows
IsNormInput(t, n) ==
    \/ t = EmptyTable
    \/ \E h \in NormHeaders : \E m \in 0..n : \E rows \in [1..m -> RowsOf(h)] :
          t = Table(h, rows)

----------------------------------------------------------------------------
(* Values of the variables a specification does not use *)

NotExited == [exited |-> FALSE, code |-> 0]

NoReport == [fn |-> "none", n |-> 0, ok |-> TRUE, rows |-> <<>>]

NoOutcome == [ok |-> TRUE, df |-> EmptyTable, err |-> "unset"]

Idle ==
    /\ listing = <<>>
    /\ hits = <<>>
    /\ next_hit = 0
    /\ all_dfs = <<>>
    /\ df = EmptyTable
    /\ item_df = EmptyTable
    /\ store = NoTable
    /\ store_before = NoTable
    /\ conn_open = 0
    /\ out = <<>>
    /\ exit_status = NotExited
    /\ calls = <<>>
    /\ arg = EmptyTable
    /\ report = NoReport
    /\ stable_sort = TRUE

----------------------------------------------------------------------------
(* SpecNorm: normalize_menu_df applied to one table *)

InitNorm ==
    /\ Idle
    /\ pc = "input"
    /\ IsNormInput(raw, MaxNormRows)
    /\ norm = NoOutcome

Normalize ==
    /\ pc = "input"
    /\ norm' = normalize_menu_df(raw)
    /\ pc' = "normalized"
    /\ UNCHANGED <<listing, hits, next_hit, all_dfs, df, item_df, store, store_before,
                   conn_open, out, exit_status, calls, arg, report, stable_sort, raw>>

NextNorm == Normalize

SpecNorm == InitNorm /\ [][NextNorm]_vars

\* C7: normalize_menu_df never raises and returns a table with the same row
\* count and the same columns (labels trimmed), whose configured numeric
\* columns hold only numbers or nulls, every other column unchanged.
C7_NormalizeTotal ==
    pc = "normalized" =>
        /\ norm.ok
        /\ Len(norm.df.rows) = Len(raw.rows)
        /\ norm.df.cols = [i \in 1..Len(raw.cols) |-> Strip(raw.cols[i])]
        /\ \A r \in 1..Len(raw.rows) : \A j \in 1..Len(raw.cols) :
              IF IsNumColName(raw.cols[j])
              THEN ~IsTxt(norm.df.rows[r][j])
              ELSE norm.df.rows[r][j] = raw.rows[r][j]

----------------------------------------------------------------------------
(* SpecAgg: a table is normalised, then ranked by one of the aggregations *)

AggHeader == <<ITEM_NAME, QUANTITY, NET_SALES>>

AggItemCells == { Txt(<<"B">>), Txt(<<"A">>), Txt(<<"C">>), Null }

AggQuantityCells == { Num(1), Txt(<<"2">>), Txt(<<"-">>) }

AggNetSalesCells == { Txt(<<"$", "1">>), Null }

AggRows == { <<i, q, s>> : i \in AggItemCells, q \in AggQuantityCells, s \in AggNetSalesCells }

\* t is a table of at most n such rows
IsAggInput(t, n) ==
    \E m \in 0..n : \E rows \in [1..m -> AggRows] : t = Table(AggHeader, rows)

NChoices == { 1, 2, DefaultN }

InitAgg ==
    /\ listing = <<>>
    /\ hits = <<>>
    /\ next_hit = 0
    /\ all_dfs = <<>>
    /\ df = EmptyTable
    /\ item_df = EmptyTable
    /\ store = NoTable
    /\ store_before = NoTable
    /\ conn_open = 0
    /\ out = <<>>
    /\ exit_status = NotExited
    /\ calls = <<>>
    /\ arg = EmptyTable
    /\ report = NoReport
    /\ stable_sort \in BOOLEAN
    /\ pc = "input"
    /\ IsAggInput(raw, MaxAggRows)
    /\ norm = NoOutcome

AggUnchanged ==
    UNCHANGED <<listing, hits, next_hit, all_dfs, item_df, store, store_before,
                conn_open, out, exit_status, calls, arg, stable_sort, raw>>

NormalizeAgg ==
    /\ pc = "input"
    /\ norm' = normalize_menu_df(raw)
    /\ df' = norm'.df
    /\ pc' = "ready"
    /\ UNCHANGED report
    /\ AggUnchanged

TopQuantity ==
    /\ pc = "ready"
    /\ \E n \in NChoices : report' \in top_items_by_quantity(df, n, stable_sort)
    /\ pc' = "ranked"
    /\ UNCHANGED <<df, norm>>
    /\ AggUnchanged

TopRevenue ==
    /\ pc = "ready"
    /\ \E n \in NChoices : report' \in top_items_by_revenue(df, n, stable_sort)
    /\ pc' = "ranked"
    /\ UNCHANGED <<df, norm>>
    /\ AggUnchanged

BottomQuantity ==
    /\ pc = "ready"
    /\ \E n \in NChoices : report' \in bottom_items_by_quantity(df, n, stable_sort)
    /\ pc' = "ranked"
    /\ UNCHANGED <<df, norm>>
    /\ AggUnchanged

NextAgg == NormalizeAgg \/ TopQuantity \/ TopRevenue \/ BottomQuantity

SpecAgg == InitAgg /\ [][NextAgg]_vars

\* the rows of df whose Item Name is the cell kv
RowsOfItem(t, kv) == { r \in 1..Len(t.rows) : Cell(t, t.rows[r], ITEM_NAME) = kv }

\* the sum over a set of rows of a column, a null cell counting 0
RECURSIVE SumOver(_, _, _)
SumOver(t, R, col) ==
    IF R = {} THEN 0
    ELSE LET r == CHOOSE x \in R : TRUE
             c == Cell(t, t.rows[r], col)
         IN  (IF IsNum(c) THEN c.v ELSE 0) + SumOver(t, R \ {r}, col)

\* C1: top_items_by_quantity with n at least the number of distinct items
\* does not fail, and reports for each item the sum of Quantity over the
\* item's rows, a null Quantity counting 0 (so 0 when all are null).
C1_TopQuantitySums ==
    (pc = "ranked" /\ report.fn = "top_items_by_quantity"
        /\ report.n >= Cardinality(KeysOf(df, ITEM_NAME))) =>
        /\ report.ok
        /\ \A i \in 1..Len(report.rows) :
              report.rows[i].value =
                  SumOver(df, RowsOfItem(df, report.rows[i].item), QUANTITY)

\* C1 witness: a reported item with one unparsable (null) and one numeric Quantity
C1_Witness ==
    /\ pc = "ranked" /\ report.fn = "top_items_by_quantity" /\ report.ok
    /\ report.n >= Cardinality(KeysOf(df, ITEM_NAME))
    /\ \E i \in 1..Len(report.rows) :
          \E r1, r2 \in RowsOfItem(df, report.rows[i].item) :
              /\ IsTxt(Cell(raw, raw.rows[r1], QUANTITY))
              /\ IsNull(Cell(df, df.rows[r1], QUANTITY))
              /\ IsNum(Cell(df, df.rows[r2], QUANTITY))
              /\ report.rows[i].value = Cell(df, df.rows[r2], QUANTITY).v

IsRanking(fn) ==
    fn \in {"top_items_by_quantity", "top_items_by_revenue", "bottom_items_by_quantity"}

RankedCol(fn) == IF fn = "top_items_by_revenue" THEN NET_SALES ELSE QUANTITY

RankedAscending(fn) == fn = "bottom_items_by_quantity"

\* the first row of t carrying the item
FirstRowOf(t, kv) ==
    CHOOSE r \in RowsOfItem(t, kv) : \A x \in RowsOfItem(t, kv) : r <= x

\* C10 as claimed, on the builds most favourable to it (the sort keeps equal
\* keys in place): items with equal sums appear in the order in which their
\* groups were first encountered in the table.
C10_TiesInEncounterOrder ==
    (pc = "ranked" /\ IsRanking(report.fn) /\ report.ok /\ stable_sort) =>
        \A i, j \in 1..Len(report.rows) :
            (i < j /\ report.rows[i].value = report.rows[j].value) =>
                FirstRowOf(df, report.rows[i].item) < FirstRowOf(df, report.rows[j].item)

\* C10 amended: the result is the first n of an ordering of all the groups
\* by summed measure (descending for Top, ascending for Bottom); a sort that
\* keeps equal keys in place leaves tied items in ascending Item Name order,
\* the order groupby gives the groups; otherwise ties are in no fixed order.
C10_RankedByMeasure ==
    (pc = "ranked" /\ IsRanking(report.fn) /\ report.ok) =>
        LET keys == KeysOf(df, ITEM_NAME)
            col == RankedCol(report.fn)
            asc == RankedAscending(report.fn)
            total(kv) == SumOver(df, RowsOfItem(df, kv), col)
            shown == { report.rows[i].item : i \in 1..Len(report.rows) }
        IN  /\ Len(report.rows) = Min(report.n, Cardinality(keys))
            /\ shown \subseteq keys
            /\ Cardinality(shown) = Len(report.rows)
            /\ \A i \in 1..Len(report.rows) :
                  report.rows[i].value = total(report.rows[i].item)
            /\ \A i, j \in 1..Len(report.rows) : i < j =>
                  /\ IF asc THEN report.rows[i].value <= report.rows[j].value
                            ELSE report.rows[i].value >= report.rows[j].value
                  /\ (stable_sort /\ report.rows[i].value = report.rows[j].value) =>
                        StrLess(report.rows[i].item.v, report.rows[j].item.v)
            /\ \A kv \in keys \ shown : \A i \in 1..Len(report.rows) :
                  IF asc THEN report.rows[i].value <= total(kv)
                         ELSE report.rows[i].value >= total(kv)

\* C10 witness: two tied items, the one met later in the table ranked first
C10_Witness ==
    /\ pc = "ranked" /\ IsRanking(report.fn) /\ report.ok /\ stable_sort
    /\ \E i, j \in 1..Len(report.rows) :
          /\ i < j
          /\ report.rows[i].value = report.rows[j].value
          /\ FirstRowOf(df, report.rows[i].item) > FirstRowOf(df, report.rows[j].item)

----------------------------------------------------------------------------
(* Spec: the script run after run; the store outlives a run *)

N_WEEK1 == <<"w", "1", "-">> \o MARKER \o EXT

N_WEEK2_UPPER ==
    <<"W", "2", "-", "M", "E", "N", "U", "-", "B", "R", "E", "A", "K", "D", "O", "W", "N",
      ".", "C", "S", "V">>

N_BACKUP == MARKER \o EXT \o <<".", "b", "a", "k">>

N_NOTES == <<"n", "o", "t", "e", "s">> \o EXT

T_TOTS == Txt(<<"T", "o", "t", "s">>)

T_SUBTOTAL == Txt(<<"S", "u", "b", "t", "o", "t", "a", "l">>)

T_TOTAL_UPPER == Txt(<<"T", "O", "T", "A", "L">>)

T_TOTAL == Txt(<<"T", "o", "t", "a", "l">>)

T_ALE == Txt(<<"A", "l", "e">>)

T_FOOD == Txt(FOOD)

T_BAR == Txt(<<"B", "a", "r">>)

MainHeader == <<ITEM_NAME, SALES_CATEGORY, QUANTITY, NET_SALES>>

PaddedHeader == <<SP \o ITEM_NAME, SALES_CATEGORY, QUANTITY \o SP, NET_SALES>>

\* the exports a matching file may hold
FileTables ==
    { Table(MainHeader,
            << <<T_TOTS, T_FOOD, Txt(<<"2">>), Txt(<<"$", "1">>)>>,
               <<T_SUBTOTAL, T_FOOD, Txt(<<"3">>), Txt(<<"$", "2">>)>> >>),
      Table(PaddedHeader,
            << <<T_TOTAL_UPPER, Null, Txt(<<"5">>), Txt(<<"$", "3">>)>>,
               <<Null, T_FOOD, Txt(<<"-">>), Txt(<<"$", "1">>)>>,
               <<T_ALE, T_BAR, Num(2), Txt(<<"1", ",", "0">>)>> >>),
      Table(<<QUANTITY>>, << <<Num(1)>> >>),
      Table(<<ITEM_NAME, QUANTITY>>, <<>>),
      Table(MainHeader, << <<T_TOTAL, T_FOOD, Txt(<<"9">>), Txt(<<"$", "9">>)>> >>) }

Entry(name, is_file, content) == [name |-> name, is_file |-> is_file, content |-> content]

DirEntries ==
    { Entry(n, TRUE, t) : n \in {N_WEEK1, N_WEEK2_UPPER}, t \in FileTables }
    \cup { Entry(n, FALSE, EmptyTable) : n \in {N_WEEK1, N_WEEK2_UPPER} }
    \cup { Entry(n, TRUE, EmptyTable) : n \in {N_BACKUP, N_NOTES} }

\* a directory holds each name once
Listings ==
    { l \in SeqsUpTo(DirEntries, MaxFiles) :
        \A i, j \in 1..Len(l) : l[i].name = l[j].name => i = j }

Exited(code) == [exited |-> TRUE, code |-> code]

\* an exception nobody catches ends the process with status 1
Crashed == Exited(1)

\* raise SystemExit, no argument: the exit code is None, the status 0
SystemExitStatus == Exited(0)

MSG_NO_DATA == "No data loaded - check folder path / file names."

Init ==
    /\ pc = "idle"
    /\ listing = <<>>
    /\ hits = <<>>
    /\ next_hit = 0
    /\ all_dfs = <<>>
    /\ df = EmptyTable
    /\ item_df = EmptyTable
    /\ store = NoTable
    /\ store_before = NoTable
    /\ conn_open = 0
    /\ out = <<>>
    /\ exit_status = NotExited
    /\ calls = <<>>
    /\ arg = EmptyTable
    /\ report = NoReport
    /\ stable_sort = FALSE
    /\ raw = EmptyTable
    /\ norm = NoOutcome

Fixed == UNCHANGED <<stable_sort, raw, norm>>

\* the script is started on the directory as it then is
Launch ==
    /\ pc = "idle"
    /\ listing' \in Listings
    /\ pc' = "start"
    /\ hits' = <<>>
    /\ next_hit' = 0
    /\ all_dfs' = <<>>
    /\ df' = EmptyTable
    /\ item_df' = EmptyTable
    /\ out' = <<>>
    /\ exit_status' = NotExited
    /\ calls' = <<>>
    /\ arg' = EmptyTable
    /\ report' = NoReport
    /\ UNCHANGED <<store, store_before, conn_open>>
    /\ Fixed

\* line 50: find_menu_csvs_in_folder(base_path)
Discover ==
    /\ pc = "start"
    /\ hits' = find_menu_csvs_in_folder(BASE, listing)
    /\ calls' = Append(calls, "find_menu_csvs_in_folder")
    /\ pc' = "loading"
    /\ UNCHANGED <<listing, next_hit, all_dfs, df, item_df, store, store_before,
                   conn_open, out, exit_status, arg, report>>
    /\ Fixed

EntryOf(path) == CHOOSE e \in {listing[i] : i \in 1..Len(listing)} : e.name = Basename(path)

Crash ==
    /\ pc' = "crashed"
    /\ exit_status' = Crashed

\* lines 51-54 for the next hit; reading a directory, or a header with a
\* doubled numeric label, raises
LoadFile ==
    /\ pc = "loading"
    /\ next_hit < Len(hits)
    /\ LET csv_path == hits[next_hit + 1]
           e == EntryOf(csv_path)
           r == normalize_menu_df(e.content)
       IN  IF e.is_file /\ r.ok
           THEN /\ all_dfs' = Append(all_dfs, SetWeek(r.df, WeekLabel(csv_path)))
                /\ next_hit' = next_hit + 1
                /\ UNCHANGED <<pc, exit_status>>
           ELSE /\ Crash
                /\ UNCHANGED <<all_dfs, next_hit>>
    /\ UNCHANGED <<listing, hits, df, item_df, store, store_before, conn_open, out,
                   calls, arg, report>>
    /\ Fixed

\* lines 56-59 and line 123
LoadReturn ==
    /\ pc = "loading"
    /\ next_hit = Len(hits)
    /\ LET r == LoadResult(all_dfs)
       IN  IF r.ok
           THEN /\ df' = r.df
                /\ pc' = "loaded"
                /\ UNCHANGED exit_status
           ELSE /\ Crash
                /\ UNCHANGED df
    /\ UNCHANGED <<listing, hits, next_hit, all_dfs, item_df, store, store_before,
                   conn_open, out, calls, arg, report>>
    /\ Fixed

\* lines 125-127
AbortNoData ==
    /\ pc = "loaded"
    /\ IsEmpty(df)
    /\ out' = Append(out, MSG_NO_DATA)
    /\ exit_status' = SystemExitStatus
    /\ pc' = "exited"
    /\ UNCHANGED <<listing, hits, next_hit, all_dfs, df, item_df, store, store_before,
                   conn_open, calls, arg, report>>
    /\ Fixed

\* line 130; a table without an Item Name column raises KeyError
FilterItems ==
    /\ pc = "loaded"
    /\ ~IsEmpty(df)
    /\ IF HasCol(df, ITEM_NAME)
       THEN /\ item_df' = FilterTotals(df)
            /\ pc' = "save"
            /\ UNCHANGED exit_status
       ELSE /\ Crash
            /\ UNCHANGED item_df
    /\ UNCHANGED <<listing, hits, next_hit, all_dfs, df, store, store_before,
                   conn_open, out, calls, arg, report>>
    /\ Fixed

\* lines 133, 86: sqlite3.connect opens the store
SaveConnect ==
    /\ pc = "save"
    /\ calls' = Append(calls, "save_to_database")
    /\ arg' = item_df
    /\ store_before' = store
    /\ conn_open' = conn_open + 1
    /\ pc' = "save_write"
    /\ UNCHANGED <<listing, hits, next_hit, all_dfs, df, item_df, store, out,
                   exit_status, report>>
    /\ Fixed

\* lines 133, 86: sqlite3.connect raises (the store's directory is missing)
SaveConnectFails ==
    /\ pc = "save"
    /\ calls' = Append(calls, "save_to_database")
    /\ arg' = item_df
    /\ store_before' = store
    /\ Crash
    /\ UNCHANGED <<listing, hits, next_hit, all_dfs, df, item_df, store, conn_open,
                   out, report>>
    /\ Fixed

\* line 87
SaveWrite ==
    /\ pc = "save_write"
    /\ store' = ToSql(store, arg)
    /\ pc' = "save_close"
    /\ UNCHANGED <<listing, hits, next_hit, all_dfs, df, item_df, store_before,
                   conn_open, out, exit_status, calls, arg, report>>
    /\ Fixed

\* line 87 raises (disk full, store locked): lines 88-89 are never reached
SaveWriteFails ==
    /\ pc = "save_write"
    /\ Crash
    /\ UNCHANGED <<listing, hits, next_hit, all_dfs, df, item_df, store, store_before,
                   conn_open, out, calls, arg, report>>
    /\ Fixed

\* lines 88-89
SaveClose ==
    /\ pc = "save_close"
    /\ conn_open' = conn_open - 1
    /\ out' = Append(out, "Data saved")
    /\ pc' = "top_quantity"
    /\ UNCHANGED <<listing, hits, next_hit, all_dfs, df, item_df, store, store_before,
                   exit_status, calls, arg, report>>
    /\ Fixed

\* one of lines 136-146: the heading is printed, the report computed and printed;
\* a missing column raises KeyError
Report(at, fn, heading, outcomes, then) ==
    /\ pc = at
    /\ calls' = Append(calls, fn)
    /\ arg' = item_df
    /\ \E r \in outcomes :
          /\ report' = r
          /\ IF r.ok
             THEN /\ out' = out \o <<heading, fn>>
                  /\ pc' = then
                  /\ UNCHANGED exit_status
             ELSE /\ out' = Append(out, heading)
                  /\ Crash
    /\ UNCHANGED <<listing, hits, next_hit, all_dfs, df, item_df, store, store_before,
                   conn_open>>
    /\ Fixed

ReportTopQuantity ==
    Report("top_quantity", "top_items_by_quantity", "=== TOP 10 SELLERS (by quantity) ===",
           top_items_by_quantity(item_df, DefaultN, stable_sort), "top_revenue")

ReportTopRevenue ==
    Report("top_revenue", "top_items_by_revenue", "=== TOP 10 BY REVENUE ===",
           top_items_by_revenue(item_df, DefaultN, stable_sort), "bottom_quantity")

ReportBottomQuantity ==
    Report("bottom_quantity", "bottom_items_by_quantity", "=== BOTTOM 10 (poor performers) ===",
           bottom_items_by_quantity(item_df, DefaultN, stable_sort), "bottom_category")

ReportBottomCategory ==
    Report("bottom_category", "bottom_items_by_category", "=== BOTTOM 10 FOOD ITEMS ===",
           bottom_items_by_category(item_df, FOOD, DefaultN, stable_sort), "query")

\* lines 149-158, 115
QueryConnect ==
    /\ pc = "query"
    /\ out' = Append(out, "=== SQL QUERY: Top 5 Food Items by Revenue ===")
    /\ calls' = Append(calls, "query_database")
    /\ conn_open' = conn_open + 1
    /\ pc' = "query_read"
    /\ UNCHANGED <<listing, hits, next_hit, all_dfs, df, item_df, store, store_before,
                   exit_status, arg, report>>
    /\ Fixed

\* lines 116-118, 158: the rows are read, the connection closed, the result printed
QueryRead ==
    /\ pc = "query_read"
    /\ report' \in SqlTopFoodRevenue(store)
    /\ conn_open' = conn_open - 1
    /\ out' = Append(out, "query_database")
    /\ exit_status' = Exited(0)
    /\ pc' = "done"
    /\ UNCHANGED <<listing, hits, next_hit, all_dfs, df, item_df, store, store_before,
                   calls, arg>>
    /\ Fixed

\* line 116 raises (the store cannot be read): line 117 is never reached
QueryReadFails ==
    /\ pc = "query_read"
    /\ Crash
    /\ UNCHANGED <<listing, hits, next_hit, all_dfs, df, item_df, store, store_before,
                   conn_open, out, calls, arg, report>>
    /\ Fixed

\* the process is gone, and with it whatever it still held open
Terminate ==
    /\ pc \in {"done", "exited", "crashed"}
    /\ pc' = "idle"
    /\ conn_open' = 0
    /\ listing' = <<>>
    /\ hits' = <<>>
    /\ next_hit' = 0
    /\ all_dfs' = <<>>
    /\ df' = EmptyTable
    /\ item_df' = EmptyTable
    /\ out' = <<>>
    /\ exit_status' = NotExited
    /\ calls' = <<>>
    /\ arg' = EmptyTable
    /\ report' = NoReport
    /\ store_before' = NoTable
    /\ UNCHANGED store
    /\ Fixed

Next ==
    \/ Launch
    \/ Discover
    \/ LoadFile
    \/ LoadReturn
    \/ AbortNoData
    \/ FilterItems
    \/ SaveConnect
    \/ SaveConnectFails
    \/ SaveWrite
    \/ SaveWriteFails
    \/ SaveClose
    \/ ReportTopQuantity
    \/ ReportTopRevenue
    \/ ReportBottomQuantity
    \/ ReportBottomCategory
    \/ QueryConnect
    \/ QueryRead
    \/ QueryReadFails
    \/ Terminate

Spec == Init /\ [][Next]_vars

----------------------------------------------------------------------------
(* The claims about the script *)

LastCall == IF calls = <<>> THEN "none" ELSE calls[Len(calls)]

Called(fn) == \E i \in 1..Len(calls) : calls[i] = fn

ReportNames ==
    {"top_items_by_quantity", "top_items_by_revenue", "bottom_items_by_quantity",
     "bottom_items_by_category"}

\* the save of this run has written the store
WrittenThisRun == pc = "save_close" \/ \E i \in 1..Len(out) : out[i] = "Data saved"

\* the text holds t, o, t, a, l in a row, each in either case
HasTotalAnyCase(c) ==
    /\ IsTxt(c)
    /\ \E i \in 1..(Len(c.v) - 4) :
          /\ c.v[i] \in {"t", "T"}
          /\ c.v[i + 1] \in {"o", "O"}
          /\ c.v[i + 2] \in {"t", "T"}
          /\ c.v[i + 3] \in {"a", "A"}
          /\ c.v[i + 4] \in {"l", "L"}

\* the rows of df without a "total" in the Item Name, in df's order
ItemRows == SelectSeq(df.rows, LAMBDA row : ~HasTotalAnyCase(Cell(df, row, ITEM_NAME)))

\* C2: once the run reaches persistence, the table passed to save_to_database
\* and to each of the four reports, and the sales table written, hold exactly
\* the rows of the unified table whose Item Name has no "total" in any letter
\* case (rows with a null Item Name included), in their order.
C2_TotalsFilteredOut ==
    /\ (LastCall \in ReportNames \cup {"save_to_database"}) =>
          /\ arg.cols = df.cols
          /\ arg.rows = ItemRows
          /\ \A r \in 1..Len(arg.rows) : ~HasTotalAnyCase(Cell(arg, arg.rows[r], ITEM_NAME))
    /\ WrittenThisRun =>
          /\ store.rows = ItemRows
          /\ \A r \in 1..Len(store.rows) :
                ~HasTotalAnyCase(Cell(store, store.rows[r], ITEM_NAME))

\* C2 witness: the fourth report has received a table from which a total row
\* is gone and in which a row with a null Item Name is kept, as in the store
C2_Witness ==
    /\ LastCall = "bottom_items_by_category"
    /\ WrittenThisRun
    /\ Len(arg.rows) < Len(df.rows)
    /\ \E r \in 1..Len(df.rows) : HasTotalAnyCase(Cell(df, df.rows[r], ITEM_NAME))
    /\ \E r \in 1..Len(arg.rows) : IsNull(Cell(arg, arg.rows[r], ITEM_NAME))
    /\ store.rows = arg.rows

NoMatchingFiles == \A i \in 1..Len(listing) : ~Matches(listing[i].name)

C4_NoDataExitsNonZero ==
    (pc = "exited" /\ IsEmpty(df)) =>
        /\ \E i \in 1..Len(out) : out[i] = MSG_NO_DATA
        /\ exit_status.exited
        /\ exit_status.code # 0

\* C5: after a successful save the sales table holds exactly the columns and
\* rows of the table passed to that call, whatever it held before.
C5_StoreReplaced ==
    WrittenThisRun =>
        /\ ~store.absent
        /\ store.cols = item_df.cols
        /\ store.rows = item_df.rows
        /\ (pc = "save_close" => store = Stored(arg))

\* C5 witness: a save over a table of other, non-empty contents
C5_Witness ==
    /\ pc = "save_close"
    /\ ~store_before.absent
    /\ Len(store_before.rows) > 0
    /\ Len(store.rows) > 0
    /\ \A i \in 1..Len(store_before.rows) : \A j \in 1..Len(store.rows) :
          store_before.rows[i] # store.rows[j]

\* C6: find_menu_csvs_in_folder returns exactly the regular files of the
\* directory whose lowercased name contains "menu-breakdown" and ends with ".csv"
C6_OnlyMatchingRegularFiles ==
    (pc \notin {"idle", "start"}) =>
        LET wanted == SelectSeq(listing, LAMBDA e : e.is_file /\ Matches(e.name))
        IN  hits = [i \in 1..Len(wanted) |-> Join(BASE, wanted[i].name)]

\* the matching entries, in listing order
Discovered == SelectSeq(listing, LAMBDA e : Matches(e.name))

RECURSIVE RowsBefore(_, _)
RowsBefore(files, j) ==
    IF j <= 1 THEN 0 ELSE RowsBefore(files, j - 1) + Len(files[j - 1].content.rows)

\* the rows file j is to contribute under the header cols: its normalised
\* rows, null where it has no such column, Week its name less the ".csv"
ExpectedRows(file, cols) ==
    LET t == normalize_menu_df(file.content).df
        label == Txt(SubSeq(file.name, 1, Len(file.name) - 4))
        at == [c \in 1..Len(cols) |->
                  IF cols[c] = WEEK THEN 0
                  ELSE IF HasCol(t, cols[c]) THEN ColIdx(t, cols[c]) ELSE -1]
    IN  [r \in 1..Len(t.rows) |->
            [c \in 1..Len(cols) |->
                IF at[c] = 0 THEN label
                ELSE IF at[c] > 0 THEN t.rows[r][at[c]] ELSE Null]]

\* C8: the table load_all_weeks returns holds, file after file in discovery
\* order and row after row, the normalised rows of the files, each under the
\* union of the files' columns (null where its file has no such column), with
\* Week the file's name less its ".csv"; it is thus a function of the listing.
C8_UnifiedTableIsConcatenation ==
    (pc = "loaded") =>
        LET files == Discovered
        IN  /\ Len(df.rows) = RowsBefore(files, Len(files) + 1)
            /\ \A i, j \in 1..Len(df.cols) : df.cols[i] = df.cols[j] => i = j
            /\ { df.cols[i] : i \in 1..Len(df.cols) } =
                  UNION { { Strip(files[j].content.cols[i]) :
                              i \in 1..Len(files[j].content.cols) } \cup {WEEK} :
                          j \in 1..Len(files) }
            /\ \A j \in 1..Len(files) :
                  SubSeq(df.rows, RowsBefore(files, j) + 1, RowsBefore(files, j + 1))
                      = ExpectedRows(files[j], df.cols)

\* C8 witness: two files with rows and different columns have been loaded
C8_Witness ==
    /\ pc = "loaded"
    /\ Len(Discovered) = 2
    /\ \A j \in 1..2 : Len(Discovered[j].content.rows) > 0
    /\ Len(Discovered[1].content.cols) # Len(Discovered[2].content.cols)
    /\ Len(df.rows) >= 3

\* C9: no run ends with a store connection still open
C9_ConnectionsReleased ==
    (pc \in {"done", "exited", "crashed"}) => conn_open = 0

====
